---- MODULE Spec2Model ----
(***************************************************************************)
(* A model of gs_landsat.py: availability checking, URL and path           *)
(* derivation, the streaming downloader, the download orchestrator and the *)
(* PRE-only filter.                                                        *)
(*                                                                         *)
(* Python values that the code tells apart by type (a band given as the    *)
(* int 6 versus the str '6', a collection number 1 versus 'PRE') are       *)
(* records [t, v] holding the type tag and the value's str() text.         *)
(* Python strings are TLA+ strings, indexed from 1.                        *)
(***************************************************************************)
EXTENDS Integers, Sequences, FiniteSets, TLC

VARIABLES
    files,            \* the save root: path -> [by, n]; by = <<run, row, loop index>> of the
                      \* download_file call that wrote it (<<0,0,0>>: there before), n = chunks
    dirs,             \* product directories that exist
    df,               \* the dataframe handed to the function under study (sequence of rows)
    bands,            \* the caller's band collection: [kind, items]
    check_bqa,        \* keyword arguments of check_products_available
    check_mtl,
    store,            \* check_products_available's dict: row index -> bands_status
    arg_bands,        \* the items of `bands` when check_product_available was last entered
    product_status,   \* first component of check_product_available's last return value
    bands_status,     \* second component: the dict, as a sequence of [b, present, path]
    run,              \* which invocation of download_products is executing
    n,                \* position in df (1-based)
    k,                \* position in the dict iterated by download_product
    pc,               \* control location
    frame,            \* download_product's locals: url, band_save_name, verify, gm, bound
    written,          \* chunks written to the '.part' file by the running download_file
    stdout,           \* the last line printed
    clean,            \* no download or decompression has failed so far
    ndown,            \* download_file calls issued by the running download_products
    sqlrows,          \* rows returned by the SQL query
    df_full,          \* execute_query's return value
    prepro_only,      \* filter_collection_pre's return value
    ids,              \* requested bands whose paths are derived
    tested,           \* paths tested by check_product_available, per dict key
    final             \* final paths written by download_product, per dict key

vars == <<files, dirs, df, bands, check_bqa, check_mtl, store, arg_bands, product_status,
          bands_status, run, n, k, pc, frame, written, stdout, clean, ndown,
          sqlrows, df_full, prepro_only, ids, tested, final>>

(***************************************************************************)
(* Bounds of the model.                                                    *)
(***************************************************************************)
NChunks == 2
Runs == 2
MaxRows == 3

(***************************************************************************)
(* Python values.                                                          *)
(***************************************************************************)
PyInt(i) == [t |-> "int", v |-> ToString(i)]
PyStr(s) == [t |-> "str", v |-> s]
MTL == PyStr("MTL")
BQA == PyStr("BQA")

Char(s, i) == SubSeq(s, i, i)

Digits == {"0", "1", "2", "3", "4", "5", "6", "7", "8", "9"}

\* str.isnumeric()
isnumeric(s) == Len(s) > 0 /\ \A i \in 1..Len(s) : Char(s, i) \in Digits

\* str.find(sep) from position i on; 0 when sep does not occur
RECURSIVE Find(_, _, _)
Find(s, sep, i) ==
    IF i + Len(sep) - 1 > Len(s) THEN 0
    ELSE IF SubSeq(s, i, i + Len(sep) - 1) = sep THEN i
    ELSE Find(s, sep, i + 1)

\* str.split(sep)
RECURSIVE split(_, _)
split(s, sep) ==
    LET i == Find(s, sep, 1)
    IN  IF i = 0 THEN <<s>>
        ELSE <<SubSeq(s, 1, i - 1)>> \o split(SubSeq(s, i + Len(sep), Len(s)), sep)

\* os.path.join(a, b) on POSIX
path_join(a, b) ==
    IF Len(b) > 0 /\ Char(b, 1) = "/" THEN b
    ELSE IF a = "" \/ Char(a, Len(a)) = "/" THEN a \o b
    ELSE a \o "/" \o b

\* the environment variable $L0lib, read once as the default save root
L0lib == "/L0"

get_product_save_path(product_id, sensor_id) ==
    path_join(path_join(L0lib, sensor_id), product_id)

(***************************************************************************)
(* The local filesystem.                                                   *)
(***************************************************************************)
exists(fs, ds, p) == p \in DOMAIN fs \/ p \in ds

InDir(p, d) == Len(p) > Len(d) + 1 /\ SubSeq(p, 1, Len(d) + 1) = d \o "/"

Listing(fs, d) == {p \in DOMAIN fs : InDir(p, d)}

Remove(fs, p) == [q \in DOMAIN fs \ {p} |-> fs[q]]

Put(fs, p, c) == (p :> c) @@ Remove(fs, p)

(***************************************************************************)
(* check_product_available.  The dict `store` keeps insertion order; each  *)
(* entry also records the path whose existence decided it.                 *)
(***************************************************************************)
DictSet(d, b, present, path) ==
    IF \E i \in 1..Len(d) : d[i].b = b
    THEN [i \in 1..Len(d) |->
            IF d[i].b = b THEN [b |-> b, present |-> present, path |-> path]
            ELSE d[i]]
    ELSE Append(d, [b |-> b, present |-> present, path |-> path])

\* variant: the quality mask tested under the metadata file's name
band_save_path_bqa_as_mtl(save_path, product_id, b) ==
    IF b = MTL \/ b = BQA THEN path_join(save_path, product_id \o "_MTL.txt")
    ELSE path_join(save_path, product_id \o "_B" \o b.v \o ".TIF")

band_save_path(save_path, product_id, b) ==
    IF b = MTL THEN path_join(save_path, product_id \o "_MTL.txt")
    ELSE IF b = BQA THEN path_join(save_path, product_id \o "_BQA.TIF")
    ELSE path_join(save_path, product_id \o "_B" \o b.v \o ".TIF")

gm_save_path(save_path, product_id, b) ==
    path_join(save_path, product_id \o "_B" \o b.v \o "_GM.TIF")

GMKey(b) == PyStr("GM" \o b.v)

\* variant: a missing gap mask is recorded but does not clear `complete`
check_band_gm_ignored(fs, ds, save_path, product_id, sensor, b, acc) ==
    LET p == band_save_path(save_path, product_id, b)
        e == exists(fs, ds, p)
        s1 == DictSet(acc.store, b, e, p)
        c1 == acc.complete /\ e
    IN  IF sensor = "ETM" /\ isnumeric(b.v)
        THEN LET g == gm_save_path(save_path, product_id, b)
                 ge == exists(fs, ds, g)
             IN  [store |-> DictSet(s1, GMKey(b), ge, g), complete |-> c1]
        ELSE [store |-> s1, complete |-> c1]

\* one pass of the loop body for band b: the updated (store, complete)
check_band(fs, ds, save_path, product_id, sensor, b, acc) ==
    LET p == band_save_path(save_path, product_id, b)
        e == exists(fs, ds, p)
        s1 == DictSet(acc.store, b, e, p)
        c1 == acc.complete /\ e
    IN  IF sensor = "ETM" /\ isnumeric(b.v)
        THEN LET g == gm_save_path(save_path, product_id, b)
                 ge == exists(fs, ds, g)
             IN  [store |-> DictSet(s1, GMKey(b), ge, g), complete |-> c1 /\ ge]
        ELSE [store |-> s1, complete |-> c1]

RECURSIVE check_loop(_, _, _, _, _, _, _, _)
check_loop(fs, ds, save_path, product_id, sensor, items, i, acc) ==
    IF i > Len(items) THEN acc
    ELSE check_loop(fs, ds, save_path, product_id, sensor, items, i + 1,
                    check_band(fs, ds, save_path, product_id, sensor, items[i], acc))

\* `bands = list(bands)` happens only in the BQA branch; `bands.append('MTL')`
\* acts on whatever `bands` then names: the private copy or the caller's object
copied(collection, bqa) == bqa /\ collection = PyInt(1)

check_product_available(fs, ds, product_id, collection, sensor, bnds, bqa, mtl) ==
    LET save_path == get_product_save_path(product_id, sensor)
        priv == copied(collection, bqa)
        kind1 == IF priv THEN "list" ELSE bnds.kind
        items1 == IF priv THEN Append(bnds.items, BQA) ELSE bnds.items
        attr_error == mtl /\ kind1 # "list"
        items2 == IF mtl THEN Append(items1, MTL) ELSE items1
        caller == IF mtl /\ ~priv /\ ~attr_error
                  THEN [bnds EXCEPT !.items = items2] ELSE bnds
        res == check_loop(fs, ds, save_path, product_id, sensor, items2, 1,
                          [store |-> <<>>, complete |-> TRUE])
    IN  [raised |-> attr_error, caller |-> caller,
         complete |-> res.complete, store |-> res.store]

(***************************************************************************)
(* download_product: the if/elif chain that derives the URL and the save   *)
(* name of dict key b.  Locals assigned by no branch keep the value of the *)
(* previous iteration (bound = FALSE: never assigned in this call).        *)
(***************************************************************************)
gs_gs_access == "gs://gcp-public-data-landsat/"
gs_http_access == "https://storage.googleapis.com/gcp-public-data-landsat/"

\* gs_path.split('/')[-1]
last_segment(gs_path) == LET parts == split(gs_path, "/") IN parts[Len(parts)]

http_path_of(gs_path) == gs_http_access \o split(gs_path, gs_gs_access)[2]

http_path_im_of(gs_path) == http_path_of(gs_path) \o "/" \o last_segment(gs_path)

NoFrame == [url |-> "", band_save_name |-> "", verify |-> FALSE, gm |-> FALSE, bound |-> FALSE]

\* variant: the band number compared as text, so that band 6 gets its suffix
gap_mask_band_vcid(b) ==
    IF Char(b.v, 3) = "6" THEN Char(b.v, 3) \o "_VCID_1" ELSE Char(b.v, 3)

\* `if b[2] == 6`: a one-character str compared with the int 6
gap_mask_band(b) ==
    IF PyStr(Char(b.v, 3)) = PyInt(6) THEN Char(b.v, 3) \o "_VCID_1" ELSE Char(b.v, 3)

derive(b, fr, product_id, gs_path) ==
    IF b = MTL
    THEN [url |-> http_path_im_of(gs_path) \o "_MTL.txt",
          band_save_name |-> product_id \o "_MTL.txt",
          verify |-> FALSE, gm |-> FALSE, bound |-> TRUE]
    ELSE IF b = BQA
    THEN [url |-> http_path_im_of(gs_path) \o "_BQA.TIF",
          band_save_name |-> product_id \o "_BQA.TIF",
          verify |-> FALSE, gm |-> FALSE, bound |-> TRUE]
    ELSE IF b.t = "str"
    THEN IF SubSeq(b.v, 1, IF Len(b.v) < 2 THEN Len(b.v) ELSE 2) = "GM"
         THEN [url |-> path_join(path_join(http_path_of(gs_path), "gap_mask"),
                                 last_segment(gs_path) \o "_GM_B" \o gap_mask_band(b)
                                     \o ".TIF.gz"),
               band_save_name |-> product_id \o "_B" \o gap_mask_band(b) \o "_GM.TIF.gz",
               verify |-> FALSE, gm |-> TRUE, bound |-> TRUE]
         ELSE [fr EXCEPT !.gm = FALSE]
    ELSE [url |-> http_path_im_of(gs_path) \o "_B" \o b.v \o ".TIF",
          band_save_name |-> product_id \o "_B" \o b.v \o ".TIF",
          verify |-> TRUE, gm |-> FALSE, bound |-> TRUE]

\* what `gunzip <name>.gz` leaves: the name without its '.gz'
gunzip_target(p) == SubSeq(p, 1, Len(p) - 3)

(***************************************************************************)
(* The state the orchestrator is in.                                       *)
(***************************************************************************)
Row == df[n]
save_path == get_product_save_path(Row.PRODUCT_ID, Row.SENSOR_ID)
Cur == bands_status[k]
outfile == path_join(save_path, frame.band_save_name)
\* variant: the body is streamed straight to the destination
part_direct == outfile
part == outfile \o ".part"
Call == <<run, n, k>>

checkIdle == <<check_bqa, check_mtl, store>>
filterIdle == <<sqlrows, df_full, prepro_only>>
pathIdle == <<ids, tested, final>>

(***************************************************************************)
(* download_products                                                       *)
(***************************************************************************)
\* one pass of `for ix, row in df_down.iterrows()` up to the first download
products_iter ==
    /\ pc = "products_loop"
    /\ n <= Len(df)
    /\ LET res == check_product_available(files, dirs, Row.PRODUCT_ID,
                      Row.COLLECTION_NUMBER, Row.SENSOR_ID, bands, FALSE, FALSE)
       IN  /\ arg_bands' = bands.items
           /\ bands' = res.caller
           /\ product_status' = res.complete
           /\ bands_status' = res.store
           /\ stdout' = "progress"
           /\ IF res.complete
              THEN /\ n' = n + 1
                   /\ UNCHANGED <<dirs, k, pc, frame>>
              ELSE \* download_product: os.makedirs, FileExistsError passed over
                   /\ dirs' = dirs \cup {save_path}
                   /\ k' = 1
                   /\ pc' = "bands_loop"
                   /\ frame' = NoFrame
                   /\ n' = n
    /\ UNCHANGED <<files, df, run, written, clean, ndown>>
    /\ UNCHANGED <<checkIdle, filterIdle, pathIdle>>

products_end ==
    /\ pc = "products_loop"
    /\ n > Len(df)
    /\ stdout' = "finished"
    /\ pc' = "finished"
    /\ UNCHANGED <<files, dirs, df, bands, arg_bands, product_status, bands_status,
                   run, n, k, frame, written, clean, ndown>>
    /\ UNCHANGED <<checkIdle, filterIdle, pathIdle>>

\* the caller runs download_products again on the same dataframe, bands and save root
rerun ==
    /\ pc = "finished"
    /\ run < Runs
    /\ run' = run + 1
    /\ n' = 1
    /\ ndown' = 0
    /\ pc' = "products_loop"
    /\ UNCHANGED <<files, dirs, df, bands, arg_bands, product_status, bands_status,
                   k, frame, written, stdout, clean>>
    /\ UNCHANGED <<checkIdle, filterIdle, pathIdle>>

(***************************************************************************)
(* download_product: `for b in bands`                                      *)
(***************************************************************************)
\* variant: no artifact is skipped
skip_never(present) == FALSE

\* `if bands[b] is True: continue`
skip_present(present) == present

bands_iter ==
    /\ pc = "bands_loop"
    /\ k <= Len(bands_status)
    /\ IF skip_present(Cur.present)
       THEN /\ k' = k + 1
            /\ frame' = [frame EXCEPT !.gm = FALSE]
            /\ UNCHANGED <<pc, ndown>>
       ELSE LET fr == derive(Cur.b, frame, Row.PRODUCT_ID, Row.BASE_URL)
            IN  /\ frame' = fr
                /\ k' = k
                /\ IF fr.bound
                   THEN pc' = "get" /\ ndown' = ndown + 1
                   ELSE pc' = "raised" /\ ndown' = ndown   \* UnboundLocalError
    /\ UNCHANGED <<files, dirs, df, bands, arg_bands, product_status, bands_status,
                   run, n, written, stdout, clean>>
    /\ UNCHANGED <<checkIdle, filterIdle, pathIdle>>

bands_end ==
    /\ pc = "bands_loop"
    /\ k > Len(bands_status)
    /\ n' = n + 1
    /\ pc' = "products_loop"
    /\ frame' = NoFrame
    /\ UNCHANGED <<files, dirs, df, bands, arg_bands, product_status, bands_status,
                   run, k, written, stdout, clean, ndown>>
    /\ UNCHANGED <<checkIdle, filterIdle, pathIdle>>

(***************************************************************************)
(* download_file                                                           *)
(***************************************************************************)
\* s.get(...): the server answers, or the connection fails; then open(... + '.part')
get_response ==
    /\ pc = "get"
    /\ \E answer \in {"ok", "not_ok", "error"} :
         IF answer = "ok" /\ save_path \in dirs
         THEN /\ files' = Put(files, part, [by |-> Call, n |-> 0])
              /\ written' = 0
              /\ pc' = "stream"
              /\ clean' = clean
         ELSE \* IOError("Can't access"), a requests exception, or FileNotFoundError
              /\ pc' = "except"
              /\ clean' = FALSE
              /\ UNCHANGED <<files, written>>
    /\ UNCHANGED <<dirs, df, bands, arg_bands, product_status, bands_status,
                   run, n, k, frame, stdout, ndown>>
    /\ UNCHANGED <<checkIdle, filterIdle, pathIdle>>

\* one pass of `for chunk in rfile.iter_content(...)`: a chunk arrives or the read fails
stream_chunk ==
    /\ pc = "stream"
    /\ written < NChunks
    /\ \E arrives \in BOOLEAN :
         IF arrives
         THEN /\ files' = Put(files, part, [by |-> Call, n |-> written + 1])
              /\ written' = written + 1
              /\ UNCHANGED <<pc, clean>>
         ELSE /\ pc' = "except"
              /\ clean' = FALSE
              /\ UNCHANGED <<files, written>>
    /\ UNCHANGED <<dirs, df, bands, arg_bands, product_status, bands_status,
                   run, n, k, frame, stdout, ndown>>
    /\ UNCHANGED <<checkIdle, filterIdle, pathIdle>>

\* the stream is exhausted: the file is closed and os.rename puts it in place
rename(fs, src, dst) == Put(Remove(fs, src), dst, fs[src])

stream_end ==
    /\ pc = "stream"
    /\ written = NChunks
    /\ files' = rename(files, part, outfile)
    /\ IF frame.gm
       THEN pc' = "gunzip" /\ k' = k
       ELSE pc' = "bands_loop" /\ k' = k + 1
    /\ UNCHANGED <<dirs, df, bands, arg_bands, product_status, bands_status,
                   run, n, frame, written, stdout, clean, ndown>>
    /\ UNCHANGED <<checkIdle, filterIdle, pathIdle>>

(***************************************************************************)
(* download_product: `except IOError` and the gunzip step                  *)
(***************************************************************************)
\* os.rmdir(d): "ok", or the OSError it raises
rmdir(fs, ds, d) ==
    IF d \notin ds THEN "FileNotFoundError"
    ELSE IF Listing(fs, d) # {} THEN "OSError"
    ELSE "ok"

\* where control goes after the handler's two branches: the verify branch falls
\* through to `if gm:`, the other one ends with `continue`
after_rmdir(gm) == IF gm THEN "gunzip" ELSE "bands_loop"

\* variant: the warning branch without its `continue`
after_warning_no_continue(gm) == IF gm THEN "gunzip" ELSE "bands_loop"
after_warning(gm) == "bands_loop"

except_IOError ==
    /\ pc = "except"
    /\ IF frame.verify
       THEN /\ stdout' = "deleting"
            /\ IF rmdir(files, dirs, save_path) = "ok"
               THEN /\ dirs' = dirs \ {save_path}
                    /\ pc' = after_rmdir(frame.gm)
               ELSE /\ pc' = "raised"
                    /\ dirs' = dirs
       ELSE /\ stdout' = "warning"
            /\ dirs' = dirs
            /\ pc' = after_warning(frame.gm)
    /\ k' = IF pc' = "bands_loop" THEN k + 1 ELSE k
    /\ UNCHANGED <<files, df, bands, arg_bands, product_status, bands_status,
                   run, n, frame, written, clean, ndown>>
    /\ UNCHANGED <<checkIdle, filterIdle, pathIdle>>

\* subprocess.check_output('gunzip ...'): gunzip replaces the file, or exits non-zero
\* (no such file, a file already at the target name, not gzip data) and
\* CalledProcessError propagates
gunzip ==
    /\ pc = "gunzip"
    /\ \E valid \in BOOLEAN :
         IF valid /\ outfile \in DOMAIN files /\ gunzip_target(outfile) \notin DOMAIN files
         THEN /\ files' = rename(files, outfile, gunzip_target(outfile))
              /\ pc' = "bands_loop"
              /\ k' = k + 1
              /\ clean' = clean
         ELSE /\ pc' = "raised"
              /\ clean' = FALSE
              /\ UNCHANGED <<files, k>>
    /\ UNCHANGED <<dirs, df, bands, arg_bands, product_status, bands_status,
                   run, n, frame, written, stdout, ndown>>
    /\ UNCHANGED <<checkIdle, filterIdle, pathIdle>>

(***************************************************************************)
(* Inputs: catalog rows as execute_query returns them, and band requests.  *)
(***************************************************************************)
ETMRow ==
    [PRODUCT_ID |-> "LE07_T1", SCENE_ID |-> "LE7EDC00", SENSOR_ID |-> "ETM",
     COLLECTION_NUMBER |-> PyInt(1),
     BASE_URL |-> "gs://gcp-public-data-landsat/LE07/01/005/013/LE07_T1"]

TMRow ==
    [PRODUCT_ID |-> "LT5KIS00", SCENE_ID |-> "LT5KIS00", SENSOR_ID |-> "TM",
     COLLECTION_NUMBER |-> PyStr("PRE"),
     BASE_URL |-> "gs://gcp-public-data-landsat/LT05/PRE/005/013/LT5KIS00"]

DfDowns == {<<ETMRow>>, <<TMRow, ETMRow>>, <<ETMRow, TMRow>>}

BandLists == {<<PyInt(1), PyInt(6)>>, <<PyInt(6), MTL>>, <<BQA, PyInt(1)>>}

Range(f) == {f[i] : i \in DOMAIN f}

Old == [by |-> <<0, 0, 0>>, n |-> NChunks]

\* the paths check_product_available tests for the rows of d and the bands bnds
TestedPaths(d, bnds, bqa, mtl) ==
    UNION {{e.path : e \in Range(check_product_available(<<>>, {}, r.PRODUCT_ID,
                r.COLLECTION_NUMBER, r.SENSOR_ID, bnds, bqa, mtl).store)} : r \in Range(d)}

\* the directories a set of files lies in
DirsOf(d, ps) ==
    {get_product_save_path(r.PRODUCT_ID, r.SENSOR_ID) : r \in
        {r \in Range(d) : \E p \in ps :
            InDir(p, get_product_save_path(r.PRODUCT_ID, r.SENSOR_ID))}}

Init ==
    /\ df \in DfDowns
    /\ bands \in {[kind |-> "tuple", items |-> l] : l \in BandLists}
    /\ \E ps \in SUBSET TestedPaths(df, bands, FALSE, FALSE) :
         /\ files = [p \in ps |-> Old]
         /\ dirs = DirsOf(df, ps)
    /\ check_bqa = FALSE
    /\ check_mtl = FALSE
    /\ store = <<>>
    /\ arg_bands = <<>>
    /\ product_status = FALSE
    /\ bands_status = <<>>
    /\ run = 1
    /\ n = 1
    /\ k = 1
    /\ pc = "products_loop"
    /\ frame = NoFrame
    /\ written = 0
    /\ stdout = ""
    /\ clean = TRUE
    /\ ndown = 0
    /\ sqlrows = <<>>
    /\ df_full = <<>>
    /\ prepro_only = <<>>
    /\ ids = <<>>
    /\ tested = <<>>
    /\ final = <<>>

Next ==
    \/ products_iter
    \/ products_end
    \/ rerun
    \/ bands_iter
    \/ bands_end
    \/ get_response
    \/ stream_chunk
    \/ stream_end
    \/ except_IOError
    \/ gunzip

Spec == Init /\ [][Next]_vars

(***************************************************************************)
(* check_products_available: the wrapper that checks a whole dataframe     *)
(* with one band collection.                                               *)
(***************************************************************************)
mainIdle == <<run, k, frame, written, stdout, clean, ndown>>

InitCheck ==
    /\ df \in DfDowns
    /\ bands \in {[kind |-> kd, items |-> l] : kd \in {"list", "tuple"}, l \in BandLists}
    /\ check_bqa \in BOOLEAN
    /\ check_mtl \in BOOLEAN
    /\ \E ps \in SUBSET TestedPaths(df, [kind |-> "list", items |-> bands.items],
                                    check_bqa, check_mtl) :
         /\ files = [p \in ps |-> Old]
         /\ dirs = DirsOf(df, ps)
    /\ store = <<>>
    /\ arg_bands = <<>>
    /\ product_status = FALSE
    /\ bands_status = <<>>
    /\ run = 1
    /\ n = 1
    /\ k = 1
    /\ pc = "check_loop"
    /\ frame = NoFrame
    /\ written = 0
    /\ stdout = ""
    /\ clean = TRUE
    /\ ndown = 0
    /\ sqlrows = <<>>
    /\ df_full = <<>>
    /\ prepro_only = <<>>
    /\ ids = <<>>
    /\ tested = <<>>
    /\ final = <<>>

\* one pass of `for ix, row in df.iterrows()`
check_row ==
    /\ pc = "check_loop"
    /\ n <= Len(df)
    /\ LET res == check_product_available(files, dirs, Row.PRODUCT_ID,
                      Row.COLLECTION_NUMBER, Row.SENSOR_ID, bands, check_bqa, check_mtl)
       IN  /\ arg_bands' = bands.items
           /\ IF res.raised
              THEN \* AttributeError: 'tuple' object has no attribute 'append'
                   /\ pc' = "raised"
                   /\ UNCHANGED <<bands, product_status, bands_status, store, n>>
              ELSE /\ bands' = res.caller
                   /\ product_status' = res.complete
                   /\ bands_status' = res.store
                   /\ store' = Append(store, res.store)
                   /\ n' = n + 1
                   /\ pc' = pc
    /\ UNCHANGED <<files, dirs, df, check_bqa, check_mtl>>
    /\ UNCHANGED <<mainIdle, filterIdle, pathIdle>>

\* `return pd.DataFrame.from_dict(store, orient='index')`
check_end ==
    /\ pc = "check_loop"
    /\ n > Len(df)
    /\ pc' = "returned"
    /\ UNCHANGED <<files, dirs, df, bands, arg_bands, product_status, bands_status, n>>
    /\ UNCHANGED <<checkIdle, mainIdle, filterIdle, pathIdle>>

NextCheck ==
    \/ check_row
    \/ check_end

SpecCheck == InitCheck /\ [][NextCheck]_vars

(***************************************************************************)
(* execute_query and filter_collection_pre.  A dataframe is a sequence of  *)
(* rows; each row carries its index label.                                 *)
(***************************************************************************)
\* catalog entries: legacy (PRE) entries have no product identifier
Catalog ==
    { [PRODUCT_ID |-> "LT05_X_T1", SCENE_ID |-> "X", COLLECTION_NUMBER |-> PyInt(1)],
      [PRODUCT_ID |-> "", SCENE_ID |-> "X", COLLECTION_NUMBER |-> PyStr("PRE")],
      [PRODUCT_ID |-> "", SCENE_ID |-> "Y", COLLECTION_NUMBER |-> PyStr("PRE")],
      [PRODUCT_ID |-> "LT05_Z_T1", SCENE_ID |-> "Z", COLLECTION_NUMBER |-> PyInt(1)],
      [PRODUCT_ID |-> "", SCENE_ID |-> "W", COLLECTION_NUMBER |-> PyStr("PRE")] }

\* the results a query can return: distinct catalog entries in any order
QueryResults ==
    {q \in UNION {[1..m -> Catalog] : m \in 0..MaxRows} :
        \A i, j \in 1..Len(q) : i # j => q[i] # q[j]}

InitFilter ==
    /\ sqlrows \in QueryResults
    /\ df_full = <<>>
    /\ prepro_only = <<>>
    /\ pc = "query"
    /\ files = <<>>
    /\ dirs = {}
    /\ df = <<>>
    /\ bands = [kind |-> "tuple", items |-> <<>>]
    /\ check_bqa = FALSE
    /\ check_mtl = FALSE
    /\ store = <<>>
    /\ arg_bands = <<>>
    /\ product_status = FALSE
    /\ bands_status = <<>>
    /\ run = 1
    /\ n = 1
    /\ k = 1
    /\ frame = NoFrame
    /\ written = 0
    /\ stdout = ""
    /\ clean = TRUE
    /\ ndown = 0
    /\ ids = <<>>
    /\ tested = <<>>
    /\ final = <<>>

\* PRODUCT_ID '' becomes SCENE_ID; the index becomes PRODUCT_ID
effective_id(r) == IF r.PRODUCT_ID = "" THEN r.SCENE_ID ELSE r.PRODUCT_ID

execute_query ==
    /\ pc = "query"
    /\ df_full' = [i \in 1..Len(sqlrows) |->
                     [index |-> effective_id(sqlrows[i]),
                      PRODUCT_ID |-> effective_id(sqlrows[i]),
                      SCENE_ID |-> sqlrows[i].SCENE_ID,
                      COLLECTION_NUMBER |-> sqlrows[i].COLLECTION_NUMBER]]
    /\ pc' = "filter"
    /\ UNCHANGED <<sqlrows, prepro_only, files, dirs, df, bands, arg_bands,
                   product_status, bands_status, n>>
    /\ UNCHANGED <<checkIdle, mainIdle, pathIdle>>

\* df.SCENE_ID.groupby(df.SCENE_ID).count(): a series indexed by scene identifier
counts(d, scene) == Cardinality({i \in 1..Len(d) : d[i].SCENE_ID = scene})

\* df.join(counts, rsuffix='_COUNT') aligns counts with the rows' index labels;
\* a label that is no scene identifier gets NaN (<<>>)
SCENE_ID_COUNT(d, r) ==
    IF \E i \in 1..Len(d) : d[i].SCENE_ID = r.index
    THEN <<counts(d, r.index)>> ELSE <<>>

\* variant: the duplicate count is not consulted
keep_any_pre(count, collection) == collection = PyStr("PRE")

\* (df.SCENE_ID_COUNT == 1) & (df.COLLECTION_NUMBER == 'PRE')
keep(count, collection) == count = <<1>> /\ collection = PyStr("PRE")

RECURSIVE select_rows(_, _, _)
select_rows(d, i, acc) ==
    IF i > Len(d) THEN acc
    ELSE select_rows(d, i + 1,
            IF keep(SCENE_ID_COUNT(d, d[i]), d[i].COLLECTION_NUMBER)
            THEN Append(acc, d[i]) ELSE acc)

filter_collection_pre ==
    /\ pc = "filter"
    /\ prepro_only' = select_rows(df_full, 1, <<>>)
    /\ pc' = "filtered"
    /\ UNCHANGED <<sqlrows, df_full, files, dirs, df, bands, arg_bands,
                   product_status, bands_status, n>>
    /\ UNCHANGED <<checkIdle, mainIdle, pathIdle>>

NextFilter ==
    \/ execute_query
    \/ filter_collection_pre

SpecFilter == InitFilter /\ [][NextFilter]_vars

(***************************************************************************)
(* Path derivation on its own: the paths check_product_available tests and *)
(* the paths download_product leaves its files at, for one product and a   *)
(* request of two identifiers.                                             *)
(***************************************************************************)
OLIRow ==
    [PRODUCT_ID |-> "LC08_T1", SCENE_ID |-> "LC8LGN00", SENSOR_ID |-> "OLI_TIRS",
     COLLECTION_NUMBER |-> PyInt(1),
     BASE_URL |-> "gs://gcp-public-data-landsat/LC08/01/005/013/LC08_T1"]

\* the band numbers of each sensor's products; gap masks exist for ETM only
BandNumbers(sensor) ==
    IF sensor = "ETM" THEN 1..8 ELSE IF sensor = "TM" THEN 1..7 ELSE 1..11

Requestable(sensor) == {PyInt(i) : i \in BandNumbers(sensor)} \cup {MTL, BQA}

\* download_product's loop with every download succeeding: for each dict key that
\* is not present, the path its file ends at (after gunzip for a gap mask)
RECURSIVE final_paths(_, _, _, _, _)
final_paths(st, i, fr, row, acc) ==
    IF i > Len(st) THEN acc
    ELSE IF skip_present(st[i].present)
    THEN final_paths(st, i + 1, [fr EXCEPT !.gm = FALSE], row, acc)
    ELSE LET f2 == derive(st[i].b, [fr EXCEPT !.gm = FALSE], row.PRODUCT_ID, row.BASE_URL)
             out == path_join(get_product_save_path(row.PRODUCT_ID, row.SENSOR_ID),
                              f2.band_save_name)
         IN  final_paths(st, i + 1, f2, row,
                Append(acc, [b |-> st[i].b,
                             path |-> IF f2.gm THEN gunzip_target(out) ELSE out]))

InitPaths ==
    /\ df \in {<<r>> : r \in {ETMRow, TMRow, OLIRow}}
    /\ ids \in {<<a, b>> : a, b \in Requestable(df[1].SENSOR_ID)}
    /\ tested = <<>>
    /\ final = <<>>
    /\ pc = "derive"
    /\ files = <<>>
    /\ dirs = {}
    /\ bands = [kind |-> "tuple", items |-> <<>>]
    /\ check_bqa = FALSE
    /\ check_mtl = FALSE
    /\ store = <<>>
    /\ arg_bands = <<>>
    /\ product_status = FALSE
    /\ bands_status = <<>>
    /\ run = 1
    /\ n = 1
    /\ k = 1
    /\ frame = NoFrame
    /\ written = 0
    /\ stdout = ""
    /\ clean = TRUE
    /\ ndown = 0
    /\ sqlrows = <<>>
    /\ df_full = <<>>
    /\ prepro_only = <<>>

derive_paths ==
    /\ pc = "derive"
    /\ LET res == check_product_available(files, dirs, Row.PRODUCT_ID,
                      Row.COLLECTION_NUMBER, Row.SENSOR_ID,
                      [kind |-> "tuple", items |-> ids], FALSE, FALSE)
       IN  /\ tested' = [i \in 1..Len(res.store) |->
                            [b |-> res.store[i].b, path |-> res.store[i].path]]
           /\ final' = final_paths(res.store, 1, NoFrame, Row, <<>>)
    /\ pc' = "derived"
    /\ UNCHANGED <<ids, files, dirs, df, bands, arg_bands, product_status,
                   bands_status, n>>
    /\ UNCHANGED <<checkIdle, mainIdle, filterIdle>>

NextPaths == derive_paths

SpecPaths == InitPaths /\ [][NextPaths]_vars

(***************************************************************************)
(* Properties.                                                             *)
(***************************************************************************)
InDownloadFile == pc \in {"get", "stream", "except"}
InProduct == pc \in {"bands_loop", "get", "stream", "except", "gunzip"}
IsPart(p) == Len(p) > 5 /\ SubSeq(p, Len(p) - 4, Len(p)) = ".part"
IsBand(b) == b.t = "int"
IsGapMask(b) == b.t = "str" /\ Len(b.v) > 2 /\ SubSeq(b.v, 1, 2) = "GM"
IsAuxiliary(b) == b = MTL \/ b = BQA \/ IsGapMask(b)
WrittenBy(p, r, i) == files[p].by[1] = r /\ files[p].by[2] = i

\* C1: while a download_file call runs and in every state where it has failed,
\* the only file of that call is '<destination>.part'; a file that any call put
\* at a final path holds the whole body.
C1_Atomic ==
    /\ InDownloadFile =>
         \A p \in DOMAIN files : files[p].by = Call => p = outfile \o ".part"
    /\ \A p \in DOMAIN files :
         (files[p].by # Old.by /\ ~IsPart(p)) => files[p].n = NChunks

\* the stream broke after the first chunk: the call failed leaving its '.part'
C1_Witness ==
    /\ pc = "except"
    /\ (outfile \o ".part") \in DOMAIN files
    /\ files[outfile \o ".part"] = [by |-> Call, n |-> 1]
    /\ outfile \notin DOMAIN files

\* C2: whenever the download of a numeric band fails, the handler removes the
\* product's save directory with everything in it and the batch is not aborted.
C2_Claim ==
    [][(pc = "except" /\ IsBand(Cur.b)) =>
          /\ save_path \notin dirs'
          /\ Listing(files', save_path) = {}
          /\ pc' # "raised"]_vars

\* C3: when the download of an 'MTL', 'BQA' or 'GM<n>' artifact fails, a warning
\* is printed, the directory and its files stay as they are, no gunzip is run,
\* and the loop goes on with the next artifact of the same product.
C3_WarnOnly ==
    [][(pc = "except" /\ IsAuxiliary(Cur.b)) =>
          /\ stdout' = "warning"
          /\ files' = files
          /\ dirs' = dirs
          /\ pc' = "bands_loop"
          /\ k' = k + 1
          /\ n' = n
          /\ run' = run]_vars

\* a warning was printed while a sibling downloaded by the same call is on disk
C3_Witness ==
    /\ pc = "bands_loop"
    /\ stdout = "warning"
    /\ k > 1
    /\ IsAuxiliary(bands_status[k - 1].b)
    /\ \E p \in Listing(files, save_path) : WrittenBy(p, run, n) /\ ~IsPart(p)

C5_Expected ==
    LET r == df[n - 1]
        sp == get_product_save_path(r.PRODUCT_ID, r.SENSOR_ID)
        req == Range(arg_bands)
                 \cup (IF check_bqa /\ r.COLLECTION_NUMBER = PyInt(1) THEN {BQA} ELSE {})
                 \cup (IF check_mtl THEN {MTL} ELSE {})
    IN  {<<b, band_save_path(sp, r.PRODUCT_ID, b)>> : b \in req}
          \cup (IF r.SENSOR_ID = "ETM"
                THEN {<<GMKey(b), gm_save_path(sp, r.PRODUCT_ID, b)>> :
                         b \in {x \in req : IsBand(x)}}
                ELSE {})

\* C5: check_product_available returns complete=False exactly when one of these
\* artifacts has no file, and its map says of each whether its file exists.
C5_Complete ==
    (pc \in {"check_loop", "returned"} /\ n > 1) =>
        /\ (product_status = FALSE) <=>
             (\E e \in C5_Expected : ~exists(files, dirs, e[2]))
        /\ {<<x.b, x.present>> : x \in Range(bands_status)}
             = {<<e[1], exists(files, dirs, e[2])>> : e \in C5_Expected}

\* an ETM product whose only missing file is the gap mask of band 1
C5_Witness ==
    /\ pc \in {"check_loop", "returned"}
    /\ n > 1
    /\ df[n - 1].SENSOR_ID = "ETM"
    /\ product_status = FALSE
    /\ \E x \in Range(bands_status) : x.b = PyInt(1) /\ x.present
    /\ \A x \in Range(bands_status) : x.present <=> x.b # PyStr("GM1")

\* the URL the provider's naming convention gives artifact b of a record
C6_URL(gs_path, b) ==
    LET base == gs_http_access \o SubSeq(gs_path, Len(gs_gs_access) + 1, Len(gs_path))
        scene == last_segment(gs_path)
        band == SubSeq(b.v, 3, Len(b.v))
    IN  IF b = MTL THEN base \o "/" \o scene \o "_MTL.txt"
        ELSE IF b = BQA THEN base \o "/" \o scene \o "_BQA.TIF"
        ELSE IF IsGapMask(b)
        THEN base \o "/gap_mask/" \o scene \o "_GM_B"
               \o (IF band = "6" THEN "6_VCID_1" ELSE band) \o ".TIF.gz"
        ELSE base \o "/" \o scene \o "_B" \o b.v \o ".TIF"

\* C6: every URL download_product requests is the one the naming convention
\* gives the artifact of that loop iteration (band 6's gap mask: '6_VCID_1').
C6_Claim == pc = "get" => frame.url = C6_URL(Row.BASE_URL, Cur.b)

\* C7: filter_collection_pre returns exactly the records whose scene identifier
\* occurs once in the query result and whose collection generation is 'PRE'.
C7_PreOnly ==
    pc = "filtered" =>
        /\ Range(prepro_only) =
             {r \in Range(df_full) :
                 /\ Cardinality({i \in 1..Len(df_full) : df_full[i].SCENE_ID = r.SCENE_ID}) = 1
                 /\ r.COLLECTION_NUMBER = PyStr("PRE")}
        /\ Len(prepro_only) = Cardinality(Range(prepro_only))

\* scene X in generations {1, 'PRE'}, scene Y in 'PRE' only: only Y is returned
C7_Witness ==
    /\ pc = "filtered"
    /\ {<<r.SCENE_ID, r.COLLECTION_NUMBER>> : r \in Range(df_full)}
         = {<<"X", PyInt(1)>>, <<"X", PyStr("PRE")>>, <<"Y", PyStr("PRE")>>}
    /\ Len(prepro_only) = 1
    /\ prepro_only[1].SCENE_ID = "Y"

\* C8: download_product is entered only for an incomplete product, requests a
\* download only for an artifact whose map entry is False, and leaves every file
\* the map reports present as it was.
C8_SkipPresent ==
    InProduct =>
        /\ ~product_status
        /\ InDownloadFile => ~Cur.present
        /\ \A i \in 1..Len(bands_status) :
             bands_status[i].present =>
                /\ bands_status[i].path \in DOMAIN files
                /\ ~WrittenBy(bands_status[i].path, run, n)

\* a download is requested after an artifact reported present was passed over
C8_Witness ==
    /\ pc = "get"
    /\ \E i \in 1..(k - 1) : bands_status[i].present

\* C9: for one product, distinct artifact identifiers are tested at distinct
\* paths and downloaded to distinct paths, and the path an identifier is
\* downloaded to does not depend on the identifiers handled before it.
C9_Injective ==
    pc = "derived" =>
        /\ \A i, j \in 1..Len(tested) : i # j => tested[i].path # tested[j].path
        /\ \A i, j \in 1..Len(final) : i # j => final[i].path # final[j].path
        /\ \A i \in 1..Len(final) :
             final[i].path =
                final_paths(<<[b |-> final[i].b, present |-> FALSE]>>, 1, NoFrame,
                            Row, <<>>)[1].path

\* a band and its gap mask next to a second band: four identifiers, four paths
C9_Witness ==
    /\ pc = "derived"
    /\ Row.SENSOR_ID = "ETM"
    /\ ids = <<PyInt(1), PyInt(6)>>
    /\ Len(tested) = 4
    /\ Len(final) = 4

\* C10: check_product_available leaves the caller's band collection as it was.
C10_Claim == [][pc = "check_loop" => bands' = bands]_vars

====
